---- MODULE Spec2Model ----
(***************************************************************************)
(* A model of webtty.WebTTY (src/webtty/webtty.go): the handshake, the     *)
(* slave pump and the master pump started by Run, the dispatch of the      *)
(* frames read from the master, and the audit recorder both pumps call.    *)
(* Bytes are the integers 0..255, a []byte is a sequence of them.          *)
(***************************************************************************)
EXTENDS Integers, Sequences, FiniteSets, TLC

(***************************************************************************)
(* Bounds of the model.                                                    *)
(***************************************************************************)
\* reads the master stream delivers before it only fails or blocks
MaxMasterReads == 2
\* reads the slave stream delivers before it only fails or blocks
MaxSlaveReads == 1
\* the same for a master that sends frames of every kind
DispatchReads == 1
\* the same for a slave that produces chunks of every shape
OutputReads == 2

(***************************************************************************)
(* Command codes.  They are declared in a file of the package that is not  *)
(* part of the sources at hand; the protocol description lists them as one *)
(* enumeration of eight codes, taken here as eight distinct bytes.         *)
(***************************************************************************)
Input == 49
Ping == 50
ResizeTerminal == 51
Output == 52
Pong == 53
SetWindowTitle == 54
SetPreferences == 55
SetReconnect == 56

(***************************************************************************)
(* The byte values audit and filterASCII compare with.                     *)
(***************************************************************************)
BS == 8
TAB == 9
LF == 10
CR == 13
SPACE == 32
HASH == 35
LowerH == 104
LowerS == 115

\* "sh-4.3#", the prompt audit removes from a record (webtty.go:275)
Prompt == <<115, 104, 45, 52, 46, 51, 35>>

(***************************************************************************)
(* Sequence helpers: Go's slice expressions and append.                    *)
(***************************************************************************)
\* s[from:] of a Go slice (from is 0-based)
SliceFrom(s, from) == SubSeq(s, from + 1, Len(s))

\* whether p occurs in s at the 1-based position i
OccursAt(s, p, i) ==
    /\ i + Len(p) - 1 <= Len(s)
    /\ \A k \in 1..Len(p) : s[i + k - 1] = p[k]

\* strings.Replace(s, old, "", -1): every non-overlapping occurrence of old,
\* found left to right, is removed
RECURSIVE RemoveAllFrom(_, _, _)
RemoveAllFrom(s, old, i) ==
    IF i > Len(s) THEN <<>>
    ELSE IF OccursAt(s, old, i) THEN RemoveAllFrom(s, old, i + Len(old))
    ELSE <<s[i]>> \o RemoveAllFrom(s, old, i + 1)

stringsReplaceAll(s, old) == RemoveAllFrom(s, old, 1)

(***************************************************************************)
(* base64.StdEncoding.EncodeToString: three bytes become four characters   *)
(* of the standard alphabet, the last group is padded with '='.            *)
(* EncodeToStringRaw is the encoding without the padding.                  *)
(***************************************************************************)
encodeStd(i) ==
    IF i < 26 THEN 65 + i
    ELSE IF i < 52 THEN 97 + (i - 26)
    ELSE IF i < 62 THEN 48 + (i - 52)
    ELSE IF i = 62 THEN 43
    ELSE 47

RECURSIVE EncodeToStringRaw(_)
EncodeToStringRaw(d) ==
    IF Len(d) = 0 THEN <<>>
    ELSE IF Len(d) = 1 THEN
        <<encodeStd(d[1] \div 4), encodeStd((d[1] % 4) * 16)>>
    ELSE IF Len(d) = 2 THEN
        <<encodeStd(d[1] \div 4),
          encodeStd((d[1] % 4) * 16 + d[2] \div 16),
          encodeStd((d[2] % 16) * 4)>>
    ELSE
        <<encodeStd(d[1] \div 4),
          encodeStd((d[1] % 4) * 16 + d[2] \div 16),
          encodeStd((d[2] % 16) * 4 + d[3] \div 64),
          encodeStd(d[3] % 64)>> \o EncodeToStringRaw(SubSeq(d, 4, Len(d)))

RECURSIVE EncodeToString(_)
EncodeToString(d) ==
    IF Len(d) = 0 THEN <<>>
    ELSE IF Len(d) = 1 THEN
        <<encodeStd(d[1] \div 4), encodeStd((d[1] % 4) * 16), 61, 61>>
    ELSE IF Len(d) = 2 THEN
        <<encodeStd(d[1] \div 4),
          encodeStd((d[1] % 4) * 16 + d[2] \div 16),
          encodeStd((d[2] % 16) * 4),
          61>>
    ELSE
        <<encodeStd(d[1] \div 4),
          encodeStd((d[1] % 4) * 16 + d[2] \div 16),
          encodeStd((d[2] % 16) * 4 + d[3] \div 64),
          encodeStd(d[3] % 64)>> \o EncodeToString(SubSeq(d, 4, Len(d)))

(***************************************************************************)
(* json.Unmarshal(data, &args) with args an argResizeTerminal: the payload *)
(* is first checked to be one well-formed JSON value, then decoded into    *)
(* the two float64 fields.  The grammar modelled is objects, strings,      *)
(* numbers with an optional sign and fraction, null, true and false;       *)
(* arrays, string escapes, exponents and white space do not occur in the   *)
(* payloads the model draws.                                               *)
(***************************************************************************)
IsDigit(b) == b \in 48..57

ToLower(b) == IF b \in 65..90 THEN b + 32 ELSE b

\* the case folding by which the decoder matches an object key with a field
FoldKey(s) == [i \in 1..Len(s) |-> ToLower(s[i])]

\* the first position at or after i that holds no digit
RECURSIVE DigitsEnd(_, _)
DigitsEnd(d, i) ==
    IF i <= Len(d) /\ IsDigit(d[i]) THEN DigitsEnd(d, i + 1) ELSE i

\* the value of the decimal digits d[from..to-1]
RECURSIVE DigitsValue(_, _, _)
DigitsValue(d, from, to) ==
    IF from >= to THEN 0
    ELSE DigitsValue(d, from, to - 1) * 10 + (d[to - 1] - 48)

NoValue == [ok |-> FALSE, next |-> 0, kind |-> "none",
            num |-> [neg |-> FALSE, int |-> 0, frac |-> <<>>],
            members |-> <<>>]

\* a JSON number starting at i, as the float64 it denotes: sign, integer
\* part and the digits of the fraction
ScanNumber(d, i) ==
    LET neg == i <= Len(d) /\ d[i] = 45
        p0 == IF neg THEN i + 1 ELSE i
        intEnd == IF p0 <= Len(d) /\ d[p0] = 48 THEN p0 + 1 ELSE DigitsEnd(d, p0)
        hasFrac == intEnd <= Len(d) /\ d[intEnd] = 46
        fracEnd == IF hasFrac THEN DigitsEnd(d, intEnd + 1) ELSE intEnd
    IN  IF intEnd = p0 \/ (hasFrac /\ fracEnd = intEnd + 1) THEN NoValue
        ELSE [NoValue EXCEPT !.ok = TRUE, !.next = fracEnd, !.kind = "number",
                !.num = [neg |-> neg, int |-> DigitsValue(d, p0, intEnd),
                         frac |-> IF hasFrac THEN SubSeq(d, intEnd + 1, fracEnd - 1)
                                  ELSE <<>>]]

\* a JSON string starting with the quote at i
ScanString(d, i) ==
    LET closing == {j \in (i + 1)..Len(d) : d[j] = 34}
        j == CHOOSE x \in closing : \A y \in closing : x <= y
    IN  IF closing = {} THEN NoValue
        ELSE IF \E k \in (i + 1)..(j - 1) : d[k] < 32 \/ d[k] = 92 THEN NoValue
        ELSE [NoValue EXCEPT !.ok = TRUE, !.next = j + 1, !.kind = "string",
                !.members = <<SubSeq(d, i + 1, j - 1)>>]

ScanLiteral(d, i, lit, kind) ==
    IF OccursAt(d, lit, i)
    THEN [NoValue EXCEPT !.ok = TRUE, !.next = i + Len(lit), !.kind = kind]
    ELSE NoValue

RECURSIVE ScanValue(_, _)
RECURSIVE ScanMembers(_, _, _)

\* the members of an object, i being the position of the next key; acc is
\* the members scanned so far
ScanMembers(d, i, acc) ==
    IF i > Len(d) \/ d[i] /= 34 THEN NoValue
    ELSE LET key == ScanString(d, i)
         IN  IF ~key.ok \/ key.next > Len(d) \/ d[key.next] /= 58 THEN NoValue
             ELSE LET val == ScanValue(d, key.next + 1)
                      all == Append(acc, [key |-> key.members[1],
                                          kind |-> val.kind, num |-> val.num])
                  IN  IF ~val.ok \/ val.next > Len(d) THEN NoValue
                      ELSE IF d[val.next] = 125
                      THEN [NoValue EXCEPT !.ok = TRUE, !.next = val.next + 1,
                              !.kind = "object", !.members = all]
                      ELSE IF d[val.next] = 44
                      THEN ScanMembers(d, val.next + 1, all)
                      ELSE NoValue

\* one JSON value starting at i
ScanValue(d, i) ==
    IF i > Len(d) THEN NoValue
    ELSE IF d[i] = 123 THEN
        IF i + 1 <= Len(d) /\ d[i + 1] = 125
        THEN [NoValue EXCEPT !.ok = TRUE, !.next = i + 2, !.kind = "object"]
        ELSE ScanMembers(d, i + 1, <<>>)
    ELSE IF d[i] = 34 THEN ScanString(d, i)
    ELSE IF d[i] = 45 \/ IsDigit(d[i]) THEN ScanNumber(d, i)
    ELSE IF d[i] = 110 THEN ScanLiteral(d, i, <<110, 117, 108, 108>>, "null")
    ELSE IF d[i] = 116 THEN ScanLiteral(d, i, <<116, 114, 117, 101>>, "bool")
    ELSE IF d[i] = 102 THEN ScanLiteral(d, i, <<102, 97, 108, 115, 101>>, "bool")
    ELSE NoValue

\* the zero value of a float64 field
ZeroFloat == [neg |-> FALSE, int |-> 0, frac |-> <<>>]

\* the field named name after the members have been decoded in order: a
\* number sets it, null leaves it, the last member wins
RECURSIVE DecodeField(_, _, _)
DecodeField(members, name, cur) ==
    IF members = <<>> THEN cur
    ELSE LET m == Head(members)
         IN  DecodeField(Tail(members), name,
                 IF FoldKey(m.key) = name /\ m.kind = "number" THEN m.num ELSE cur)

\* a member of a known field whose value is neither a number nor null
TypeMismatch(members, names) ==
    \E k \in 1..Len(members) :
        /\ FoldKey(members[k].key) \in names
        /\ members[k].kind \notin {"number", "null"}

ColumnsField == <<99, 111, 108, 117, 109, 110, 115>>
RowsField == <<114, 111, 119, 115>>

jsonUnmarshal(data) ==
    LET v == ScanValue(data, 1)
        zero == [err |-> "nil", Columns |-> ZeroFloat, Rows |-> ZeroFloat]
    IN  IF ~v.ok \/ v.next /= Len(data) + 1
        THEN [zero EXCEPT !.err = "SyntaxError"]
        ELSE IF v.kind = "null" THEN zero
        ELSE IF v.kind /= "object" THEN [zero EXCEPT !.err = "UnmarshalTypeError"]
        ELSE [err |-> IF TypeMismatch(v.members, {ColumnsField, RowsField})
                      THEN "UnmarshalTypeError" ELSE "nil",
              Columns |-> DecodeField(v.members, ColumnsField, ZeroFloat),
              Rows |-> DecodeField(v.members, RowsField, ZeroFloat)]

\* int(f) of a float64: the fraction is dropped
IntOfFloat(f) == IF f.neg THEN 0 - f.int ELSE f.int

(***************************************************************************)
(* filterASCII (webtty.go:302-321).  The first definition lets every chunk *)
(* pass.                                                                   *)
(***************************************************************************)
filterASCIIPass(action, msg) == TRUE

filterASCII(action, msg) ==
    LET n == Len(msg)
    IN  IF n > 1 /\ msg[1] = CR /\ msg[2] = LF /\ msg[n] = SPACE /\ msg[n - 1] = HASH
        THEN FALSE
        ELSE IF n > 1 /\ msg[1] = LowerS /\ msg[2] = LowerH
                /\ msg[n] = SPACE /\ msg[n - 1] = HASH
        THEN FALSE
        ELSE IF n = 2 /\ msg[1] = CR /\ msg[2] = LF THEN FALSE
        ELSE IF action = "send" /\ n = 1 /\ msg[1] = CR THEN FALSE
        ELSE TRUE

(***************************************************************************)
(* json.Marshal of an int: its decimal digits.                             *)
(***************************************************************************)
RECURSIVE DecimalDigits(_)
DecimalDigits(n) ==
    IF n < 10 THEN <<48 + n>> ELSE Append(DecimalDigits(n \div 10), 48 + (n % 10))

jsonMarshalInt(n) == IF n < 0 THEN <<45>> \o DecimalDigits(0 - n) ELSE DecimalDigits(n)

(***************************************************************************)
(* The environment: what the two streams may deliver.                      *)
(***************************************************************************)
\* {"columns":80,"rows":24}
ResizeBoth == <<123, 34, 99, 111, 108, 117, 109, 110, 115, 34, 58, 56, 48, 44,
                34, 114, 111, 119, 115, 34, 58, 50, 52, 125>>
\* {"rows":7.9}
ResizeRows == <<123, 34, 114, 111, 119, 115, 34, 58, 55, 46, 57, 125>>

\* frames of every kind handleMasterReadEvent tells apart
DispatchFrames ==
    { <<>>,
      <<Input>>, <<Input, 108, CR>>, <<Input, TAB>>,
      <<Ping>>, <<Ping, 108>>,
      <<ResizeTerminal>>,
      <<ResizeTerminal>> \o ResizeBoth, <<ResizeTerminal>> \o ResizeRows,
      <<ResizeTerminal, 123, 125>>,
      <<ResizeTerminal, 55>>, <<ResizeTerminal, 123>>, <<ResizeTerminal, 55, 44>>,
      <<Output>>, <<Pong, 108>>, <<SetWindowTitle>>, <<SetPreferences>>,
      <<SetReconnect>>, <<63>> }

\* a few frames: keystrokes, a Ping, a resize, an unknown code, no bytes
FewFrames ==
    { <<>>, <<Input, 108, CR>>, <<Input, TAB>>, <<Ping>>,
      <<ResizeTerminal, 123, 125>>, <<63>> }

\* chunks of every length modulo three, of bytes that use the whole alphabet
OutputChunks ==
    { <<>>, <<CR>>, <<108, 115>>, <<255, 239, 190>>, <<0, 16, 131, 16>> }

FewChunks == { <<108>>, <<CR>> }

\* frames whose payload is keystrokes of a command: a TAB, "l" after a
\* Backspace and CR, a lone CR, and frames that are rejected after their
\* payload was audited
CommandFrames ==
    { <<Input, TAB>>, <<Input, BS, 108, CR>>, <<Input, CR>>,
      <<ResizeTerminal, 108, CR>>, <<63, 108>> }

\* a command after the prompt, and a Ping
PromptFrames == { <<Input>> \o Prompt \o <<108, CR>>, <<Ping>> }

\* frames whose payload begins with CR, after "l" or a TAB
DiscardFrames ==
    { <<Input, 108>>, <<Input, TAB>>, <<Input, CR, 108>>, <<Input, CR, TAB, CR>> }

\* frames whose payload is one of the patterns filterASCII rejects, after "l"
\* and a TAB
NoiseFrames ==
    { <<Input, 108, TAB>>, <<Input, CR, LF>>,
      <<Input, LowerS, LowerH, TAB, HASH, SPACE>>,
      <<Input, CR, LF, TAB, HASH, SPACE>> }

AuditFrames == {CommandFrames, PromptFrames, DiscardFrames, NoiseFrames}

\* chunks of output: "s", and patterns filterASCII rejects
AuditChunks == { <<LowerS>>, <<CR>>, <<CR, LF>> }

(***************************************************************************)
(* The state.  auditBuffer and waitForAutocomplete are read and written by *)
(* both pumps without a lock: every load and every store of them is a step *)
(* of its own, so that the steps of the two pumps interleave and a store   *)
(* may overwrite what the other pump stored since the load.                *)
(***************************************************************************)
VARIABLES
    \* the fields of WebTTY set by New and its options
    windowTitle, permitWrite, columns, rows, reconnect, masterPrefs,
    \* wt.writeMutex: "free", or the goroutine that holds it
    writeMutex,
    \* the audit state of WebTTY
    auditBuffer, waitForAutocomplete,
    \* the records audit has given to the logger at Info level
    auditLog,
    \* masterConn: the Write calls it has received, in order
    masterOut,
    \* slave: the Write and ResizeTerminal calls it has received, in order
    slaveIn, resizes,
    \* the two streams: what a read may return, and the reads they still deliver
    masterStream, slaveStream, masterLeft, slaveLeft,
    \* ctx: whether it has been canceled
    ctxDone,
    \* the goroutine of Run: its position and the error it returned
    rpc, runErr,
    \* the channel errs
    errs,
    \* the slave pump: position, the chunk read, its copy of auditBuffer
    \* between a load and the store, the error it ends with
    spc, sData, sBuf, sErr,
    \* the chunks the slave pump has read, in order
    slaveReads,
    \* the master pump: position, the frame read, index of the byte audit is
    \* at, its copy of auditBuffer, the error it ends with
    mpc, mData, mi, mBuf, mErr,
    \* whether handleMasterReadEvent has returned for mData (mErr is then what
    \* it returned), and what it has done for that frame so far
    mHandled, mEff,
    \* while handleMasterReadEvent runs for mData: the audit state as it was
    \* when audit was called
    mEntry,
    \* the frames the master pump has read, in order
    masterReads

config == <<windowTitle, permitWrite, columns, rows, reconnect, masterPrefs>>
auditVars == <<auditBuffer, waitForAutocomplete, auditLog>>
slaveConn == <<slaveIn, resizes>>
runVars == <<rpc, runErr>>
slavePump == <<spc, sData, sBuf, sErr, slaveReads, slaveLeft>>
masterPump ==
    <<mpc, mData, mi, mBuf, mErr, mHandled, mEff, mEntry, masterReads, masterLeft>>
streams == <<masterStream, slaveStream>>
vars == <<config, streams, writeMutex, auditVars, masterOut, slaveConn, ctxDone,
          runVars, errs, slavePump, masterPump>>

\* an error value: its message and, for an unknown message type, the code
Err(msg) == [msg |-> msg, code |-> 0]
NoErr == Err("nil")

\* the audit state: the buffer and the flag
AuditState(buf, wait) == [buf |-> buf, wait |-> wait]

\* an optional []byte: nil, or the bytes
Nil == <<>>
Some(b) == <<b>>

\* New (webtty.go:58-75): the audit state is empty, nothing has run; the
\* streams are given
New(frames, masterCount, chunks, slaveCount) ==
    /\ masterStream = frames
    /\ slaveStream = chunks
    /\ masterLeft = masterCount
    /\ slaveLeft = slaveCount
    /\ writeMutex = "free"
    /\ auditBuffer = <<>>
    /\ waitForAutocomplete = FALSE
    /\ auditLog = <<>>
    /\ masterOut = <<>>
    /\ slaveIn = <<>>
    /\ resizes = <<>>
    /\ ctxDone = FALSE
    /\ rpc = "title"
    /\ runErr = NoErr
    /\ errs = <<>>
    /\ spc = "idle"
    /\ sData = <<>>
    /\ sBuf = <<>>
    /\ sErr = NoErr
    /\ slaveReads = <<>>
    /\ mpc = "idle"
    /\ mData = <<>>
    /\ mi = 0
    /\ mBuf = <<>>
    /\ mErr = NoErr
    /\ mHandled = FALSE
    /\ mEff = <<>>
    /\ mEntry = AuditState(<<>>, FALSE)
    /\ masterReads = <<>>

\* a session of any handshake options, with or without write permission
Init ==
    /\ windowTitle = <<116>>
    /\ permitWrite \in BOOLEAN
    /\ columns = 0
    /\ rows = 0
    /\ reconnect \in {0, 10}
    /\ masterPrefs \in {Nil, Some(<<123, 125>>)}
    /\ New(FewFrames, MaxMasterReads, FewChunks, MaxSlaveReads)

\* a session of any fixed size with write permission, or of no fixed size
\* without it, and a master that sends frames of every kind
InitDispatch ==
    /\ windowTitle = <<116>>
    /\ permitWrite \in BOOLEAN
    /\ columns \in {0, 100}
    /\ rows \in {0, 40}
    /\ ~permitWrite => columns = 0 /\ rows = 0
    /\ reconnect = 10
    /\ masterPrefs = Some(<<123, 125>>)
    /\ New(DispatchFrames, DispatchReads, {<<108>>}, MaxSlaveReads)

\* a session that sends the whole handshake, with or without write
\* permission
InitLive ==
    /\ windowTitle = <<116>>
    /\ permitWrite \in BOOLEAN
    /\ columns = 0
    /\ rows = 0
    /\ reconnect = 10
    /\ masterPrefs = Some(<<123, 125>>)
    /\ New(FewFrames, MaxMasterReads, FewChunks, MaxSlaveReads)

\* a session with write permission in which each stream delivers several
\* reads
InitOrder ==
    /\ windowTitle = <<116>>
    /\ permitWrite = TRUE
    /\ columns = 0
    /\ rows = 0
    /\ reconnect = 10
    /\ masterPrefs = Some(<<123, 125>>)
    /\ New(FewFrames, MaxMasterReads, FewChunks, OutputReads)

\* a session whose slave produces chunks of every shape
InitOutput ==
    /\ windowTitle = <<116>>
    /\ permitWrite = TRUE
    /\ columns = 0
    /\ rows = 0
    /\ reconnect = 10
    /\ masterPrefs = Some(<<123, 125>>)
    /\ New(FewFrames, DispatchReads, OutputChunks, OutputReads)

\* a session with or without write permission whose master sends keystrokes
\* of one of the kinds of AuditFrames
InitAudit ==
    /\ windowTitle = <<116>>
    /\ permitWrite \in BOOLEAN
    /\ columns = 0
    /\ rows = 0
    /\ reconnect = 10
    /\ masterPrefs = Some(<<123, 125>>)
    /\ \E frames \in AuditFrames :
        New(frames, MaxMasterReads, AuditChunks, MaxSlaveReads)

(***************************************************************************)
(* masterWrite (webtty.go:169-179): Lock, then masterConn.Write and the    *)
(* deferred Unlock.  A Write may fail.                                     *)
(***************************************************************************)
\* the other definition of the lock does not wait for the holder
masterWriteLockBarging(who) ==
    /\ writeMutex' = who

masterWriteLock(who) ==
    /\ writeMutex = "free"
    /\ writeMutex' = who

masterWriteCall(who, data, ok) ==
    /\ writeMutex = who
    /\ masterOut' = Append(masterOut, [by |-> who, data |-> data, ok |-> ok])
    /\ writeMutex' = "free"

(***************************************************************************)
(* Run, first part: sendInitializeMessage (webtty.go:83-87, 134-156).      *)
(***************************************************************************)
WindowTitleFrame == <<SetWindowTitle>> \o windowTitle
ReconnectFrame == <<SetReconnect>> \o jsonMarshalInt(reconnect)
PreferencesFrame == <<SetPreferences>> \o masterPrefs[1]

\* Run returns the wrapped error of sendInitializeMessage; the other
\* definition drops the error and goes on to start the pumps
InitializeFailedIgnored(msg) ==
    /\ rpc' = "start"
    /\ UNCHANGED runErr

InitializeFailed(msg) ==
    /\ rpc' = "returned"
    /\ runErr' = Err(msg)

SendWindowTitle ==
    /\ rpc = "title"
    /\ masterWriteLock("run")
    /\ rpc' = "titleWrite"
    /\ UNCHANGED <<config, streams, auditVars, masterOut, slaveConn, ctxDone, runErr, errs,
                   slavePump, masterPump>>

WriteWindowTitle ==
    /\ rpc = "titleWrite"
    /\ \E ok \in BOOLEAN :
        /\ masterWriteCall("run", WindowTitleFrame, ok)
        /\ IF ok THEN rpc' = "reconnect" /\ UNCHANGED runErr
           ELSE InitializeFailed("failed to send window title")
    /\ UNCHANGED <<config, streams, auditVars, slaveConn, ctxDone, errs, slavePump, masterPump>>

\* if wt.reconnect > 0 (webtty.go:140); the other definition also announces
\* an interval of zero
ReconnectEnabledZero == reconnect >= 0

ReconnectEnabled == reconnect > 0

SendReconnect ==
    /\ rpc = "reconnect"
    /\ IF ReconnectEnabled
       THEN masterWriteLock("run") /\ rpc' = "reconnectWrite"
       ELSE rpc' = "preferences" /\ UNCHANGED writeMutex
    /\ UNCHANGED <<config, streams, auditVars, masterOut, slaveConn, ctxDone, runErr, errs,
                   slavePump, masterPump>>

WriteReconnect ==
    /\ rpc = "reconnectWrite"
    /\ \E ok \in BOOLEAN :
        /\ masterWriteCall("run", ReconnectFrame, ok)
        /\ IF ok THEN rpc' = "preferences" /\ UNCHANGED runErr
           ELSE InitializeFailed("failed to set reconnect")
    /\ UNCHANGED <<config, streams, auditVars, slaveConn, ctxDone, errs, slavePump, masterPump>>

SendPreferences ==
    /\ rpc = "preferences"
    /\ IF masterPrefs /= Nil
       THEN masterWriteLock("run") /\ rpc' = "preferencesWrite"
       ELSE rpc' = "start" /\ UNCHANGED writeMutex
    /\ UNCHANGED <<config, streams, auditVars, masterOut, slaveConn, ctxDone, runErr, errs,
                   slavePump, masterPump>>

WritePreferences ==
    /\ rpc = "preferencesWrite"
    /\ \E ok \in BOOLEAN :
        /\ masterWriteCall("run", PreferencesFrame, ok)
        /\ IF ok THEN rpc' = "start" /\ UNCHANGED runErr
           ELSE InitializeFailed("failed to set preferences")
    /\ UNCHANGED <<config, streams, auditVars, slaveConn, ctxDone, errs, slavePump, masterPump>>

(***************************************************************************)
(* Run, second part (webtty.go:89-132): the channel, the two goroutines,   *)
(* the select.                                                             *)
(***************************************************************************)
\* make(chan error, 2)
ErrsCapacity == 2

StartPumps ==
    /\ rpc = "start"
    /\ rpc' = "select"
    /\ spc' = "read"
    /\ mpc' = "read"
    /\ UNCHANGED <<config, streams, writeMutex, auditVars, masterOut, slaveConn, ctxDone,
                   runErr, errs, sData, sBuf, sErr, slaveReads, slaveLeft,
                   mData, masterReads, mEntry, mi, mBuf, mErr, mHandled, mEff, masterLeft>>

\* the select with a default case added: Run returns without waiting
SelectDefault ==
    /\ rpc = "select"
    /\ rpc' = "returned"
    /\ runErr' = IF ctxDone THEN Err("context canceled") ELSE NoErr
    /\ UNCHANGED <<config, streams, writeMutex, auditVars, masterOut, slaveConn,
                   ctxDone, errs, slavePump, masterPump>>

\* the select with a return that also ends the two pumps
SelectDoneStopping ==
    /\ rpc = "select"
    /\ ctxDone
    /\ rpc' = "returned"
    /\ runErr' = Err("context canceled")
    /\ spc' = "done"
    /\ mpc' = "done"
    /\ UNCHANGED <<config, streams, writeMutex, auditVars, masterOut, slaveConn, ctxDone,
                   errs, sData, sBuf, sErr, slaveReads, slaveLeft,
                   mData, masterReads, mEntry, mi, mBuf, mErr, mHandled, mEff, masterLeft>>

\* case <-ctx.Done(): err = ctx.Err()
SelectDone ==
    /\ rpc = "select"
    /\ ctxDone
    /\ rpc' = "returned"
    /\ runErr' = Err("context canceled")
    /\ UNCHANGED <<config, streams, writeMutex, auditVars, masterOut, slaveConn, ctxDone,
                   errs, slavePump, masterPump>>

\* case err = <-errs
SelectErrs ==
    /\ rpc = "select"
    /\ errs /= <<>>
    /\ rpc' = "returned"
    /\ runErr' = Head(errs)
    /\ errs' = Tail(errs)
    /\ UNCHANGED <<config, streams, writeMutex, auditVars, masterOut, slaveConn, ctxDone,
                   slavePump, masterPump>>

\* the caller cancels ctx
Cancel ==
    /\ ~ctxDone
    /\ ctxDone' = TRUE
    /\ UNCHANGED <<config, streams, writeMutex, auditVars, masterOut, slaveConn, runVars,
                   errs, slavePump, masterPump>>

(***************************************************************************)
(* The slave pump (webtty.go:91-106) and handleSlaveReadEvent (158-167).   *)
(***************************************************************************)
SlaveRead ==
    /\ spc = "read"
    /\ slaveLeft > 0
    /\ \E d \in slaveStream :
        /\ sData' = d
        /\ slaveReads' = Append(slaveReads, d)
    /\ slaveLeft' = slaveLeft - 1
    /\ spc' = "audit"
    /\ UNCHANGED <<config, streams, writeMutex, auditVars, masterOut, slaveConn, ctxDone,
                   runVars, errs, sBuf, sErr, masterPump>>

SlaveReadError ==
    /\ spc = "read"
    /\ sErr' = Err("ErrSlaveClosed")
    /\ spc' = "send"
    /\ UNCHANGED <<config, streams, writeMutex, auditVars, masterOut, slaveConn, ctxDone,
                   runVars, errs, sData, sBuf, slaveReads, slaveLeft, masterPump>>

\* audit("send", data) up to its test of waitForAutocomplete
\* (webtty.go:240-244)
SlaveAudit ==
    /\ spc = "audit"
    /\ spc' = IF filterASCII("send", sData) /\ waitForAutocomplete
              THEN "auditFlag" ELSE "lock"
    /\ UNCHANGED <<config, streams, writeMutex, auditVars, masterOut, slaveConn,
                   ctxDone, runVars, errs, sData, sBuf, sErr, slaveReads, slaveLeft,
                   masterPump>>

\* the value audit("send") stores to waitForAutocomplete (webtty.go:245);
\* the other definition leaves the flag as it is
FlagAfterOutputKept == waitForAutocomplete

FlagAfterOutput == FALSE

\* the store to waitForAutocomplete and the load of auditBuffer
\* (webtty.go:245-246)
SlaveAuditFlag ==
    /\ spc = "auditFlag"
    /\ waitForAutocomplete' = FlagAfterOutput
    /\ sBuf' = auditBuffer
    /\ spc' = "auditAppend"
    /\ UNCHANGED <<config, streams, writeMutex, auditBuffer, auditLog, masterOut, slaveConn,
                   ctxDone, runVars, errs, sData, sErr, slaveReads, slaveLeft,
                   masterPump>>

\* what wt.auditBuffer = append(wt.auditBuffer, msg...) stores
\* (webtty.go:246): the buffer as it was loaded, and the chunk; the other
\* definition is an append that is one step with its load
AppendedFresh == auditBuffer \o sData

Appended == sBuf \o sData

\* the store of wt.auditBuffer = append(wt.auditBuffer, msg...) (webtty.go:246)
SlaveAuditAppend ==
    /\ spc = "auditAppend"
    /\ auditBuffer' = Appended
    /\ spc' = "lock"
    /\ UNCHANGED <<config, streams, writeMutex, waitForAutocomplete, auditLog, masterOut,
                   slaveConn, ctxDone, runVars, errs, sData, sBuf, sErr, slaveReads,
                   slaveLeft, masterPump>>

\* the frame handleSlaveReadEvent writes for data (webtty.go:160-161); the
\* other definition is it without the padding
OutputFrameRaw(data) == <<Output>> \o EncodeToStringRaw(data)

OutputFrame(data) == <<Output>> \o EncodeToString(data)

SlaveLock ==
    /\ spc = "lock"
    /\ masterWriteLock("slave")
    /\ spc' = "write"
    /\ UNCHANGED <<config, streams, auditVars, masterOut, slaveConn, ctxDone, runVars, errs,
                   sData, sBuf, sErr, slaveReads, slaveLeft, masterPump>>

SlaveWrite ==
    /\ spc = "write"
    /\ \E ok \in BOOLEAN :
        /\ masterWriteCall("slave", OutputFrame(sData), ok)
        /\ IF ok THEN spc' = "read" /\ UNCHANGED sErr
           ELSE spc' = "send" /\ sErr' = Err("failed to send message to master")
    /\ UNCHANGED <<config, streams, auditVars, slaveConn, ctxDone, runVars, errs,
                   sData, sBuf, slaveReads, slaveLeft, masterPump>>

\* a pump that sends its error and goes back to its read
SlaveSendAgain ==
    /\ spc = "send"
    /\ Len(errs) < ErrsCapacity
    /\ errs' = Append(errs, sErr)
    /\ spc' = "read"
    /\ UNCHANGED <<config, streams, writeMutex, auditVars, masterOut, slaveConn, ctxDone,
                   runVars, sData, sBuf, sErr, slaveReads, slaveLeft, masterPump>>

\* errs <- the error the pump ended with
SlaveSend ==
    /\ spc = "send"
    /\ Len(errs) < ErrsCapacity
    /\ errs' = Append(errs, sErr)
    /\ spc' = "done"
    /\ UNCHANGED <<config, streams, writeMutex, auditVars, masterOut, slaveConn, ctxDone,
                   runVars, sData, sBuf, sErr, slaveReads, slaveLeft, masterPump>>

(***************************************************************************)
(* The master pump (webtty.go:108-123) and handleMasterReadEvent (181-237).*)
(***************************************************************************)
\* one thing the master pump did for a frame
Eff(op, data) == [op |-> op, data |-> data]

\* handleMasterReadEvent returns err: the pump reads again after nil and
\* ends with any other error
HandleReturn(err) ==
    /\ mHandled' = TRUE
    /\ mEntry' = AuditState(<<>>, FALSE)
    /\ mErr' = err
    /\ mpc' = IF err = NoErr THEN "read" ELSE "send"

\* the payload of the frame read, data[1:]; the other definition is the
\* frame with its type byte
PayloadWhole == mData

Payload == SliceFrom(mData, 1)

MasterRead ==
    /\ mpc = "read"
    /\ masterLeft > 0
    /\ masterLeft' = masterLeft - 1
    /\ \E d \in masterStream :
        /\ mData' = d
        /\ masterReads' = Append(masterReads, d)
        /\ mEff' = <<>>
        /\ mi' = 0
        /\ IF Len(d) = 0
           THEN HandleReturn(Err("unexpected zero length read from master"))
           ELSE /\ mpc' = "audit" /\ mHandled' = FALSE /\ mErr' = NoErr
                /\ mEntry' = AuditState(<<>>, FALSE)
    /\ UNCHANGED <<config, streams, writeMutex, auditVars, masterOut, slaveConn, ctxDone,
                   runVars, errs, slavePump, mBuf>>

MasterReadError ==
    /\ mpc = "read"
    /\ mErr' = Err("ErrMasterClosed")
    /\ mData' = <<>>
    /\ mEff' = <<>>
    /\ mEntry' = AuditState(<<>>, FALSE)
    /\ mHandled' = FALSE
    /\ mpc' = "send"
    /\ UNCHANGED <<config, streams, writeMutex, auditVars, masterOut, slaveConn,
                   ctxDone, runVars, errs, slavePump, mi, mBuf, masterReads, masterLeft>>

\* audit goes through msg = data[1:] if len(msg) > 0 (webtty.go:185, 261);
\* the other definition goes through what the dispatch will write to the
\* slave only
HasKeystrokesForwarded(data) == Len(data) > 1 /\ data[1] = Input /\ permitWrite

HasKeystrokes(data) == Len(data) > 1

\* audit("recive", data[1:]) up to its loop (webtty.go:240-263)
MasterAudit ==
    /\ mpc = "audit"
    /\ mEntry' = AuditState(auditBuffer, waitForAutocomplete)
    /\ mpc' = IF filterASCII("recive", Payload) /\ HasKeystrokes(mData)
              THEN "auditByte" ELSE "dispatch"
    /\ UNCHANGED <<config, streams, writeMutex, auditVars, masterOut, slaveConn, ctxDone,
                   runVars, errs, slavePump, mData, masterReads, mi, mBuf, mErr, mHandled, mEff,
                   masterLeft>>

\* the loop of audit goes on to the byte after msg[mi], or audit returns
AuditNextByte ==
    IF mi + 1 < Len(Payload)
    THEN mi' = mi + 1 /\ mpc' = "auditByte"
    ELSE mi' = mi /\ mpc' = "dispatch"

\* a CR that is the first byte of msg ends audit (webtty.go:283-286); the
\* other definition goes on with the bytes after it
LeadingCRSkipped(i) == FALSE

LeadingCR(i) == i = 0

\* one byte s = msg[mi] of the loop, up to its first store to auditBuffer
\* (webtty.go:263-291)
MasterAuditByte ==
    /\ mpc = "auditByte"
    /\ LET s == Payload[mi + 1]
       IN  IF s = TAB THEN
               /\ waitForAutocomplete' = TRUE
               /\ mEff' = IF waitForAutocomplete THEN mEff
                          ELSE Append(mEff, Eff("waitForAutocomplete", <<>>))
               /\ AuditNextByte
               /\ UNCHANGED mBuf
           ELSE IF s = BS THEN
               /\ mBuf' = auditBuffer
               /\ mpc' = "auditStore"
               /\ UNCHANGED <<waitForAutocomplete, mEff, mi>>
           ELSE IF s = CR THEN
               /\ IF Len(auditBuffer) > 0 /\ mi = Len(Payload) - 1
                  THEN mpc' = "auditRecord" /\ mi' = mi
                  ELSE IF LeadingCR(mi)
                  THEN mpc' = "dispatch" /\ mi' = mi
                  ELSE AuditNextByte
               /\ UNCHANGED <<waitForAutocomplete, mEff, mBuf>>
           ELSE
               /\ mBuf' = auditBuffer
               /\ mpc' = "auditStore"
               /\ UNCHANGED <<waitForAutocomplete, mEff, mi>>
    /\ UNCHANGED <<config, streams, writeMutex, auditBuffer, auditLog, masterOut, slaveConn,
                   ctxDone, runVars, errs, slavePump, mData, masterReads, mEntry, mErr, mHandled,
                   masterLeft>>

\* the store to auditBuffer for a Backspace (the buffer cut to its own
\* length, webtty.go:270) or for a byte that is appended (webtty.go:290)
MasterAuditStore ==
    /\ mpc = "auditStore"
    /\ LET s == Payload[mi + 1]
           new == IF s = BS THEN SubSeq(mBuf, 1, Len(mBuf)) ELSE Append(mBuf, s)
       IN  /\ auditBuffer' = new
           /\ mEff' = IF new = auditBuffer THEN mEff
                      ELSE Append(mEff, Eff("auditBuffer", <<>>))
    /\ AuditNextByte
    /\ UNCHANGED <<config, streams, writeMutex, waitForAutocomplete, auditLog, masterOut,
                   slaveConn, ctxDone, runVars, errs, slavePump, mData, masterReads, mEntry, mBuf, mErr,
                   mHandled, masterLeft>>

\* the record of a finished command: the buffer without the prompt
\* (webtty.go:275-279)
MasterAuditRecord ==
    /\ mpc = "auditRecord"
    /\ LET output == stringsReplaceAll(auditBuffer, Prompt)
       IN  /\ auditLog' = Append(auditLog, output)
           /\ mEff' = Append(mEff, Eff("record", output))
    /\ mpc' = "auditClear"
    /\ UNCHANGED <<config, streams, writeMutex, auditBuffer, waitForAutocomplete, masterOut,
                   slaveConn, ctxDone, runVars, errs, slavePump, mData, masterReads, mEntry, mi, mBuf,
                   mErr, mHandled, masterLeft>>

\* wt.auditBuffer = []byte{} (webtty.go:280)
MasterAuditClear ==
    /\ mpc = "auditClear"
    /\ auditBuffer' = <<>>
    /\ mEff' = IF auditBuffer = <<>> THEN mEff
               ELSE Append(mEff, Eff("auditBuffer", <<>>))
    /\ AuditNextByte
    /\ UNCHANGED <<config, streams, writeMutex, waitForAutocomplete, auditLog, masterOut,
                   slaveConn, ctxDone, runVars, errs, slavePump, mData, masterReads, mEntry, mBuf, mErr,
                   mHandled, masterLeft>>

\* an Input frame is dropped without permission or without payload
\* (webtty.go:188-194); the other definition forgets the permission
InputDroppedAnyone(data) == Len(data) <= 1

InputDropped(data) == ~permitWrite \/ Len(data) <= 1

\* case Input (webtty.go:187-199); a Write to the slave may fail
DispatchInput ==
    /\ mpc = "dispatch"
    /\ mData[1] = Input
    /\ IF InputDropped(mData)
       THEN /\ HandleReturn(NoErr)
            /\ UNCHANGED <<slaveIn, mEff>>
       ELSE \E ok \in BOOLEAN :
            /\ slaveIn' = Append(slaveIn, Payload)
            /\ mEff' = Append(mEff, Eff("slave.Write", Payload))
            /\ HandleReturn(IF ok THEN NoErr
                            ELSE Err("failed to write received data to slave"))
    /\ UNCHANGED <<config, streams, writeMutex, auditVars, masterOut, resizes, ctxDone,
                   runVars, errs, slavePump, mData, masterReads, mi, mBuf, masterLeft>>

\* case Ping (webtty.go:201-205): masterWrite takes the lock
DispatchPing ==
    /\ mpc = "dispatch"
    /\ mData[1] = Ping
    /\ masterWriteLock("master")
    /\ mpc' = "pong"
    /\ UNCHANGED <<config, streams, auditVars, masterOut, slaveConn, ctxDone, runVars, errs,
                   slavePump, mData, masterReads, mEntry, mi, mBuf, mErr, mHandled, mEff, masterLeft>>

\* the frame that answers a Ping (webtty.go:202); the other definition
\* sends the payload of the Ping back with it
PongFrameEcho == <<Pong>> \o Payload

PongFrame == <<Pong>>

WritePong ==
    /\ mpc = "pong"
    /\ \E ok \in BOOLEAN :
        /\ masterWriteCall("master", PongFrame, ok)
        /\ HandleReturn(IF ok THEN NoErr
                        ELSE Err("failed to return Pong message to master"))
    /\ mEff' = Append(mEff, Eff("masterConn.Write", PongFrame))
    /\ UNCHANGED <<config, streams, auditVars, slaveConn, ctxDone, runVars, errs, slavePump,
                   mData, masterReads, mi, mBuf, masterLeft>>

\* a session of fixed size ignores the frame (webtty.go:208-210); the other
\* definitions never ignore it, or ignore it when one dimension is fixed
ResizeIgnoredNever == FALSE

ResizeIgnoredEither == columns /= 0 \/ rows /= 0

ResizeIgnored == columns /= 0 /\ rows /= 0

\* the size ResizeTerminal is called with: a fixed value, else the parsed
\* one (webtty.go:221-229); in the other definition a parsed value wins
EffectiveSizeParsed(args) ==
    <<IF IntOfFloat(args.Columns) = 0 THEN columns ELSE IntOfFloat(args.Columns),
      IF IntOfFloat(args.Rows) = 0 THEN rows ELSE IntOfFloat(args.Rows)>>

EffectiveSize(args) ==
    <<IF columns = 0 THEN IntOfFloat(args.Columns) ELSE columns,
      IF rows = 0 THEN IntOfFloat(args.Rows) ELSE rows>>

\* case ResizeTerminal (webtty.go:207-231)
DispatchResize ==
    /\ mpc = "dispatch"
    /\ mData[1] = ResizeTerminal
    /\ IF ResizeIgnored
       THEN /\ HandleReturn(NoErr)
            /\ UNCHANGED <<resizes, mEff>>
       ELSE IF Len(mData) <= 1
       THEN /\ HandleReturn(Err("received malformed remote command for terminal resize: empty payload"))
            /\ UNCHANGED <<resizes, mEff>>
       ELSE LET args == jsonUnmarshal(Payload)
            IN  IF args.err /= "nil"
                THEN /\ HandleReturn(Err("received malformed data for terminal resize"))
                     /\ UNCHANGED <<resizes, mEff>>
                ELSE /\ resizes' = Append(resizes, EffectiveSize(args))
                     /\ mEff' = Append(mEff, Eff("slave.ResizeTerminal",
                                                 EffectiveSize(args)))
                     /\ HandleReturn(NoErr)
    /\ UNCHANGED <<config, streams, writeMutex, auditVars, masterOut, slaveIn, ctxDone,
                   runVars, errs, slavePump, mData, masterReads, mi, mBuf, masterLeft>>

\* errors.Errorf("unknown message type `%c`", code) (webtty.go:233); the
\* other definition lets an unknown code pass
UnknownTypeIgnored(code) == NoErr

UnknownType(code) == [msg |-> "unknown message type", code |-> code]

\* default (webtty.go:232-233)
DispatchUnknown ==
    /\ mpc = "dispatch"
    /\ mData[1] \notin {Input, Ping, ResizeTerminal}
    /\ HandleReturn(UnknownType(mData[1]))
    /\ UNCHANGED <<config, streams, writeMutex, auditVars, masterOut, slaveConn, ctxDone,
                   runVars, errs, slavePump, mData, masterReads, mi, mBuf, mEff, masterLeft>>

\* errs <- the error the pump ended with
MasterSend ==
    /\ mpc = "send"
    /\ Len(errs) < ErrsCapacity
    /\ errs' = Append(errs, mErr)
    /\ mpc' = "done"
    /\ UNCHANGED <<config, streams, writeMutex, auditVars, masterOut, slaveConn, ctxDone,
                   runVars, slavePump, mData, masterReads, mEntry, mi, mBuf, mErr, mHandled, mEff,
                   masterLeft>>

Next ==
    \/ SendWindowTitle \/ WriteWindowTitle
    \/ SendReconnect \/ WriteReconnect
    \/ SendPreferences \/ WritePreferences
    \/ StartPumps \/ SelectDone \/ SelectErrs \/ Cancel
    \/ SlaveRead \/ SlaveReadError \/ SlaveAudit \/ SlaveAuditFlag
    \/ SlaveAuditAppend
    \/ SlaveLock \/ SlaveWrite \/ SlaveSend
    \/ MasterRead \/ MasterReadError \/ MasterAudit \/ MasterAuditByte
    \/ MasterAuditStore \/ MasterAuditRecord \/ MasterAuditClear
    \/ DispatchInput \/ DispatchPing \/ WritePong \/ DispatchResize
    \/ DispatchUnknown \/ MasterSend

Spec == Init /\ [][Next]_vars

SpecDispatch == InitDispatch /\ [][Next]_vars

SpecOutput == InitOutput /\ [][Next]_vars

SpecAudit == InitAudit /\ [][Next]_vars

SpecOrder == InitOrder /\ [][Next]_vars

\* Run is a goroutine that is scheduled: a select with a ready case proceeds
SpecLive ==
    InitLive /\ [][Next]_vars /\ WF_vars(SelectDone) /\ WF_vars(SelectErrs)

(***************************************************************************)
(* What the master pump did for the frame it read last, by kind.           *)
(***************************************************************************)
EffOf(op) == SelectSeq(mEff, LAMBDA e : e.op = op)
EffData(op) == [k \in 1..Len(EffOf(op)) |-> EffOf(op)[k].data]

SlaveWrites == EffData("slave.Write")
SlaveResizes == EffData("slave.ResizeTerminal")
MasterWrites == EffData("masterConn.Write")
\* changes of auditBuffer or waitForAutocomplete, and records emitted
AuditEffects == SelectSeq(mEff, LAMBDA e :
                    e.op \in {"auditBuffer", "waitForAutocomplete", "record"})

\* the master pump has ended with an error
MasterPumpEnded == mpc \in {"send", "done"} /\ mErr /= NoErr

FrameOf(type) == Len(mData) >= 1 /\ mData[1] = type

(***************************************************************************)
(* C1: the payload of an Input frame is written to the slave if and only   *)
(* if permitWrite is true and the payload is not empty; in every other     *)
(* case nothing is written to the slave and the dispatch returns no error, *)
(* so the master pump keeps running.                                       *)
(***************************************************************************)
InputForwardedIffPermitted ==
    /\ FrameOf(Input) =>
        /\ ~mHandled => SlaveWrites = <<>>
        /\ mHandled =>
            IF permitWrite /\ Len(mData) > 1
            THEN SlaveWrites = <<SubSeq(mData, 2, Len(mData))>>
            ELSE SlaveWrites = <<>> /\ mErr = NoErr /\ mpc = "read"
        /\ SlaveResizes = <<>> /\ MasterWrites = <<>>
    /\ ~permitWrite => slaveIn = <<>>
    /\ \A k \in 1..Len(slaveIn) : slaveIn[k] /= <<>>

InputForwardedWitness ==
    /\ mHandled /\ mData = <<Input, 108, CR>> /\ permitWrite
    /\ slaveIn = << <<108, CR>> >>
    /\ mErr = NoErr

(***************************************************************************)
(* C2 as stated: a Ping frame, whatever follows its type byte, causes one  *)
(* Pong frame to be written to the master and nothing else: no write to    *)
(* the slave, no resize, no change of auditBuffer or waitForAutocomplete,  *)
(* no audit record.                                                        *)
(***************************************************************************)
PingOnlyPongs ==
    FrameOf(Ping) /\ mHandled => mEff = <<Eff("masterConn.Write", <<Pong>>)>>

(***************************************************************************)
(* C2 as amended: a Ping frame, whatever follows its type byte, causes one *)
(* Write of a Pong frame to the master, no write to the slave and no       *)
(* resize; a Ping frame with no byte after its type byte also leaves       *)
(* auditBuffer and waitForAutocomplete alone and emits no audit record     *)
(* (the bytes after the type byte are given to audit as keystrokes).       *)
(***************************************************************************)
PingPongsOnce ==
    FrameOf(Ping) =>
        /\ SlaveWrites = <<>> /\ SlaveResizes = <<>>
        /\ ~mHandled => MasterWrites = <<>>
        /\ mHandled => MasterWrites = << <<Pong>> >>
        /\ Len(mData) = 1 => AuditEffects = <<>>

PingPongsOnceWitness ==
    /\ mHandled /\ mData = <<Ping, 108>>
    /\ mEff = <<Eff("auditBuffer", <<>>), Eff("masterConn.Write", <<Pong>>)>>
    /\ masterOut[Len(masterOut)].data = <<Pong>>

(***************************************************************************)
(* ResizeTerminal payloads, with the columns and rows they carry.          *)
(***************************************************************************)
\* objects with numeric members
WellFormedResize == {ResizeBoth, ResizeRows, <<123, 125>>}
CarriedSize(p) ==
    IF p = ResizeBoth THEN <<80, 24>> ELSE IF p = ResizeRows THEN <<0, 7>> ELSE <<0, 0>>
\* no payload, or bytes that are no JSON value
MalformedResize == {<<>>, <<123>>, <<55, 44>>}

BothFixed == columns > 0 /\ rows > 0

(***************************************************************************)
(* C3: in a session with fixed columns and fixed rows every well-formed    *)
(* ResizeTerminal frame is accepted without an error and the resize of the *)
(* slave is never invoked.                                                 *)
(***************************************************************************)
FixedSizeNeverResized ==
    BothFixed =>
        /\ resizes = <<>>
        /\ SlaveResizes = <<>>
        /\ FrameOf(ResizeTerminal) /\ mHandled /\ Payload \in WellFormedResize
            => mErr = NoErr /\ mpc = "read"

FixedSizeWitness ==
    /\ BothFixed /\ mHandled /\ mData = <<ResizeTerminal>> \o ResizeBoth
    /\ mErr = NoErr

(***************************************************************************)
(* C4 as stated: a ResizeTerminal frame with an empty or malformed payload *)
(* ends the master pump with a protocol error in every session, also one   *)
(* of fixed columns and rows, and the slave is not resized for it.         *)
(***************************************************************************)
MalformedResizeAlwaysFails ==
    FrameOf(ResizeTerminal) /\ mHandled /\ Payload \in MalformedResize
        => MasterPumpEnded /\ SlaveResizes = <<>>

(***************************************************************************)
(* C4 as amended: a ResizeTerminal frame with an empty or malformed        *)
(* payload ends the master pump with a protocol error in every session     *)
(* that does not have both columns and rows fixed; a session with both     *)
(* fixed accepts the frame without an error; in neither is the slave       *)
(* resized for it.                                                         *)
(***************************************************************************)
MalformedResizeFailsUnlessFixed ==
    FrameOf(ResizeTerminal) /\ Payload \in MalformedResize =>
        /\ SlaveResizes = <<>>
        /\ mHandled =>
            IF BothFixed THEN mErr = NoErr /\ mpc = "read"
            ELSE /\ MasterPumpEnded
                 /\ mErr.msg \in
                      {"received malformed remote command for terminal resize: empty payload",
                       "received malformed data for terminal resize"}

MalformedResizeWitness ==
    /\ ~BothFixed /\ columns > 0
    /\ mHandled /\ mData = <<ResizeTerminal, 123>>
    /\ mpc = "done" /\ mErr = Err("received malformed data for terminal resize")

(***************************************************************************)
(* C5: in a session that does not have both dimensions fixed, a            *)
(* well-formed ResizeTerminal frame carrying (c, r) resizes the slave      *)
(* exactly once, to the fixed columns if they are set and else c, and to   *)
(* the fixed rows if they are set and else r; with nothing fixed the frame *)
(* {"columns":80,"rows":24} gives one resize(80, 24).                      *)
(***************************************************************************)
ResizeAppliedOnce ==
    FrameOf(ResizeTerminal) /\ Payload \in WellFormedResize /\ ~BothFixed =>
        /\ ~mHandled => SlaveResizes = <<>>
        /\ mHandled =>
            /\ SlaveResizes =
                << <<IF columns /= 0 THEN columns ELSE CarriedSize(Payload)[1],
                     IF rows /= 0 THEN rows ELSE CarriedSize(Payload)[2]>> >>
            /\ resizes[Len(resizes)] = SlaveResizes[1]
            /\ mErr = NoErr
            /\ columns = 0 /\ rows = 0 /\ Payload = ResizeBoth
                => SlaveResizes = << <<80, 24>> >>

ResizeAppliedWitness ==
    /\ columns = 0 /\ rows = 0
    /\ mHandled /\ mData = <<ResizeTerminal>> \o ResizeBoth
    /\ resizes = << <<80, 24>> >>

decodeStd(c) ==
    IF c \in 65..90 THEN c - 65
    ELSE IF c \in 97..122 THEN c - 71
    ELSE IF c \in 48..57 THEN c + 4
    ELSE IF c = 43 THEN 62
    ELSE IF c = 47 THEN 63
    ELSE -1

RECURSIVE DecodeString(_)
DecodeString(t) ==
    IF t = <<>> THEN <<>>
    ELSE IF Len(t) < 4 \/ decodeStd(t[1]) < 0 \/ decodeStd(t[2]) < 0 THEN <<-1>>
    ELSE LET a == decodeStd(t[1])
             b == decodeStd(t[2])
             c == decodeStd(t[3])
             d == decodeStd(t[4])
             rest == DecodeString(SubSeq(t, 5, Len(t)))
         IN  IF t[3] = 61 /\ t[4] = 61
             THEN IF Len(t) = 4 /\ b % 16 = 0 THEN <<a * 4 + b \div 16>> ELSE <<-1>>
             ELSE IF t[4] = 61
             THEN IF Len(t) = 4 /\ c >= 0 /\ c % 4 = 0
                  THEN <<a * 4 + b \div 16, (b % 16) * 16 + c \div 4>>
                  ELSE <<-1>>
             ELSE IF c < 0 \/ d < 0 \/ rest = <<-1>> THEN <<-1>>
             ELSE <<a * 4 + b \div 16, (b % 16) * 16 + c \div 4, (c % 4) * 64 + d>>
                  \o rest

\* the Write calls the slave pump has made on the master
SlavePumpWrites == SelectSeq(masterOut, LAMBDA w : w.by = "slave")

(***************************************************************************)
(* C7: for every chunk D read from the slave, a read of no bytes included, *)
(* the slave pump writes one frame to the master, the Output byte followed *)
(* by the base64 text of D, and it writes no frame of another shape.       *)
(***************************************************************************)
OutputFrameIsBase64 ==
    LET out == SlavePumpWrites
    IN  /\ Len(out) = IF spc \in {"audit", "auditFlag", "auditAppend", "lock", "write"}
                      THEN Len(slaveReads) - 1 ELSE Len(slaveReads)
        /\ \A k \in 1..Len(out) :
            LET text == SubSeq(out[k].data, 2, Len(out[k].data))
                n == Len(slaveReads[k])
            IN  /\ out[k].data[1] = Output
                /\ Len(text) = 4 * ((n + 2) \div 3)
                /\ DecodeString(text) = slaveReads[k]
        /\ slaveReads /= <<>> /\ slaveReads[1] = <<108, 115>> /\ out /= <<>>
            => out[1].data = <<Output, 98, 72, 77, 61>>

OutputFrameWitness ==
    /\ Len(slaveReads) = 2 /\ spc = "read"
    /\ slaveReads[1] = <<>> /\ slaveReads[2] = <<0, 16, 131, 16>>
    /\ SlavePumpWrites[1].data = <<Output>>
    /\ SlavePumpWrites[2].data = <<Output, 65, 66, 67, 68, 69, 65, 61, 61>>

(***************************************************************************)
(* The handshake a session is to send, and what has been written.          *)
(***************************************************************************)
\* the decimal text of the intervals the sessions are given
IntervalText == IF reconnect = 10 THEN <<49, 48>> ELSE <<48>>

ExpectedHandshake ==
    << <<SetWindowTitle>> \o windowTitle >>
    \o (IF reconnect > 0 THEN << <<SetReconnect>> \o IntervalText >> ELSE <<>>)
    \o (IF masterPrefs /= Nil THEN << <<SetPreferences>> \o masterPrefs[1] >> ELSE <<>>)

WrittenFrames == [k \in 1..Len(masterOut) |-> masterOut[k].data]

IsPrefix(a, b) == Len(a) <= Len(b) /\ SubSeq(b, 1, Len(a)) = a

\* a Write of a handshake frame has failed
HandshakeWriteFailed ==
    \E k \in 1..Len(masterOut) : masterOut[k].by = "run" /\ ~masterOut[k].ok

\* a pump has been started, or a read has been made
PumpsActive ==
    \/ spc /= "idle" \/ mpc /= "idle"
    \/ slaveReads /= <<>> \/ mData /= <<>> \/ mHandled
    \/ sErr /= NoErr \/ mErr /= NoErr

InHandshake ==
    rpc \in {"title", "titleWrite", "reconnect", "reconnectWrite",
             "preferences", "preferencesWrite"}

(***************************************************************************)
(* C8: the frames written to the master begin with the handshake: one      *)
(* SetWindowTitle frame, then one SetReconnect frame if and only if the    *)
(* interval is positive, then one SetPreferences frame if and only if      *)
(* preferences are configured (a handshake that is still being sent, or    *)
(* that a failed Write has ended, is that sequence up to the frame written *)
(* last); no Output or Pong frame is written and no read is made before    *)
(* the last handshake frame, and no handshake frame is written after it.   *)
(***************************************************************************)
HandshakeFirst ==
    LET n == Len(ExpectedHandshake)
    IN  /\ IF Len(masterOut) < n
           THEN /\ IsPrefix(WrittenFrames, ExpectedHandshake)
                /\ InHandshake \/ (masterOut /= <<>> /\ ~masterOut[Len(masterOut)].ok)
           ELSE IsPrefix(ExpectedHandshake, WrittenFrames)
        /\ \A k \in 1..Len(masterOut) :
            /\ masterOut[k].by = "run" <=> k <= n
            /\ k > n <=> masterOut[k].data[1] \in {Output, Pong}
            /\ k > n => \A j \in 1..n : masterOut[j].ok
        /\ PumpsActive => Len(masterOut) >= n /\ \A j \in 1..n : masterOut[j].ok

HandshakeFirstWitness ==
    /\ reconnect > 0 /\ masterPrefs /= Nil
    /\ Len(masterOut) = 5
    /\ WrittenFrames[1] = <<SetWindowTitle, 116>>
    /\ WrittenFrames[2] = <<SetReconnect, 49, 48>>
    /\ WrittenFrames[3] = <<SetPreferences, 123, 125>>
    /\ {WrittenFrames[4][1], WrittenFrames[5][1]} = {Output, Pong}

(***************************************************************************)
(* C9: when the Write of a handshake frame fails, Run returns an error at  *)
(* once: no further handshake frame is written, no pump is started, no     *)
(* read from the master or the slave is made.                              *)
(***************************************************************************)
HandshakeFailureAborts ==
    \A k \in 1..Len(masterOut) :
        masterOut[k].by = "run" /\ ~masterOut[k].ok =>
            /\ k = Len(masterOut)
            /\ rpc = "returned"
            /\ runErr.msg \in {"failed to send window title", "failed to set reconnect",
                               "failed to set preferences"}
            /\ ~PumpsActive
            /\ masterLeft = MaxMasterReads /\ slaveLeft = MaxSlaveReads
            /\ slaveIn = <<>> /\ resizes = <<>> /\ errs = <<>>

HandshakeFailureWitness ==
    /\ reconnect > 0 /\ masterPrefs /= Nil
    /\ Len(masterOut) = 2
    /\ masterOut[1].ok /\ ~masterOut[2].ok
    /\ masterOut[2].data[1] = SetReconnect
    /\ rpc = "returned" /\ runErr = Err("failed to set reconnect")

(***************************************************************************)
(* C10: after a handshake without failure Run does not return while ctx    *)
(* is not canceled and no pump has ended; once ctx is canceled or a pump   *)
(* has ended Run eventually returns; what it returns is the cancellation   *)
(* error or the error of a pump that has ended: ErrSlaveClosed after a     *)
(* failed read from the slave, ErrMasterClosed after a failed read from    *)
(* the master, else a protocol or write error.                             *)
(***************************************************************************)
SlaveEndedWith ==
    /\ spc = "done"
    /\ runErr = sErr
    /\ \/ sErr = Err("ErrSlaveClosed")
          /\ \A k \in 1..Len(SlavePumpWrites) : SlavePumpWrites[k].ok
       \/ sErr = Err("failed to send message to master")
          /\ ~SlavePumpWrites[Len(SlavePumpWrites)].ok

MasterEndedWith ==
    /\ mpc = "done"
    /\ runErr = mErr
    /\ \/ mErr = Err("ErrMasterClosed") /\ ~mHandled
       \/ /\ mHandled
          /\ mErr.msg \in {"unexpected zero length read from master",
                           "failed to write received data to slave",
                           "failed to return Pong message to master",
                           "received malformed remote command for terminal resize: empty payload",
                           "received malformed data for terminal resize",
                           "unknown message type"}

RunResult ==
    rpc = "returned" /\ ~HandshakeWriteFailed =>
        \/ ctxDone /\ runErr = Err("context canceled")
        \/ SlaveEndedWith
        \/ MasterEndedWith

RunMayReturn == rpc = "select" /\ (ctxDone \/ spc = "done" \/ mpc = "done")

RunReturns == []RunResult /\ (RunMayReturn ~> rpc = "returned")

RunReturnsWitness ==
    /\ rpc = "returned" /\ ~ctxDone /\ spc /= "done"
    /\ mpc = "done" /\ runErr = [msg |-> "unknown message type", code |-> 63]
    /\ errs = <<>>

(***************************************************************************)
(* C11: at most one of the handshake, the slave pump and the master pump   *)
(* is inside masterConn.Write at any time, and the one that is inside      *)
(* holds writeMutex; every Write the master has received was made by the   *)
(* handshake, the slave pump or the master pump under that lock.           *)
(***************************************************************************)
InsideWrite(who) ==
    \/ who = "run" /\ rpc \in {"titleWrite", "reconnectWrite", "preferencesWrite"}
    \/ who = "slave" /\ spc = "write"
    \/ who = "master" /\ mpc = "pong"

Writers == {"run", "slave", "master"}

MasterWritesSerialized ==
    /\ Cardinality({w \in Writers : InsideWrite(w)}) <= 1
    /\ \A w \in Writers : InsideWrite(w) <=> writeMutex = w

\* the slave pump is inside its Write while the master pump has a Ping to
\* answer and waits for the lock
MasterWritesSerializedWitness ==
    /\ spc = "write" /\ writeMutex = "slave"
    /\ mpc = "dispatch" /\ mData[1] = Ping
    /\ ~ENABLED DispatchPing

(***************************************************************************)
(* The chunk audit("recive") was given for the frame read last.            *)
(***************************************************************************)
\* the records audit has emitted for the frame
Records == EffData("record")

\* audit has returned for the frame and the dispatch has not
AuditReturned == mpc \in {"dispatch", "pong"}

\* the bytes of p that are neither TAB nor Backspace
Keystrokes(p) == SelectSeq(p, LAMBDA b : b \notin {TAB, BS})

\* the chunk is P ++ <<CR>> and P has no CR
CommandChunk ==
    /\ Len(Payload) >= 1
    /\ \A k \in 1..Len(Payload) : Payload[k] = CR <=> k = Len(Payload)

\* the buffer audit began with, followed by the keystrokes of P
Command == mEntry.buf \o Keystrokes(SubSeq(Payload, 1, Len(Payload) - 1))

(***************************************************************************)
(* C12 as stated: when audit returns for a chunk P ++ <<CR>> where P has   *)
(* no CR, and the buffer it began with followed by the bytes of P other    *)
(* than TAB and Backspace is not empty, it has emitted exactly one record, *)
(* that byte sequence without the prompt, and auditBuffer is empty.        *)
(***************************************************************************)
CommandRecordedOnce ==
    [][(mpc' = "dispatch" /\ mpc /= "dispatch" /\ CommandChunk /\ Command /= <<>>) =>
           /\ Records' = <<stringsReplaceAll(Command, Prompt)>>
           /\ auditBuffer' = <<>>]_vars

(***************************************************************************)
(* C13: for a chunk whose first byte is CR and which has a further byte,   *)
(* audit("recive") emits no record and stores nothing to auditBuffer or    *)
(* waitForAutocomplete, whatever the further bytes are: it returns at the  *)
(* first byte, and no step it takes changes the audit state.               *)
(***************************************************************************)
DiscardChunk == Len(Payload) >= 2 /\ Payload[1] = CR

InAudit == mpc \in {"audit", "auditByte", "auditStore", "auditRecord", "auditClear"}

LeadingCRDiscards ==
    /\ [](DiscardChunk =>
            /\ AuditEffects = <<>>
            /\ mpc \notin {"auditStore", "auditRecord", "auditClear"}
            /\ mpc = "auditByte" => mi = 0)
    /\ [][(DiscardChunk /\ InAudit /\ mpc' /= mpc) => UNCHANGED auditVars]_vars

\* CR, TAB, CR was discarded while "l" was in the buffer
LeadingCRDiscardsWitness ==
    /\ mData = <<Input, CR, TAB, CR>> /\ mpc = "dispatch"
    /\ mEntry = AuditState(<<108>>, FALSE)
    /\ auditBuffer = <<108>> /\ ~waitForAutocomplete /\ auditLog = <<>>

(***************************************************************************)
(* C14: a chunk that begins with CR, LF and ends with '#', SPACE, or       *)
(* begins with 's', 'h' and ends with '#', SPACE, or is CR, LF, or is a    *)
(* single CR read from the slave, is not audited in either direction: the  *)
(* pump that handles it emits no record and none of the steps of its call  *)
(* of audit changes auditBuffer or waitForAutocomplete, whatever the       *)
(* chunk contains and whatever the flag is.                                *)
(***************************************************************************)
BeginsWith(msg, a, b) == Len(msg) >= 2 /\ msg[1] = a /\ msg[2] = b

EndsWith(msg, a, b) ==
    Len(msg) >= 2 /\ msg[Len(msg) - 1] = a /\ msg[Len(msg)] = b

NoisePattern(direction, msg) ==
    \/ BeginsWith(msg, CR, LF) /\ EndsWith(msg, HASH, SPACE)
    \/ BeginsWith(msg, LowerS, LowerH) /\ EndsWith(msg, HASH, SPACE)
    \/ msg = <<CR, LF>>
    \/ direction = "send" /\ msg = <<CR>>

NoiseDropped ==
    /\ [](/\ (Len(mData) >= 1 /\ NoisePattern("receive", Payload)) =>
                /\ AuditEffects = <<>>
                /\ mpc \notin {"auditByte", "auditStore", "auditRecord", "auditClear"}
          /\ NoisePattern("send", sData) => spc /= "auditAppend")
    /\ [][/\ (Len(mData) >= 1 /\ NoisePattern("receive", Payload)
                /\ mpc = "audit" /\ mpc' /= mpc) =>
                    mpc' = "dispatch" /\ UNCHANGED auditVars
          /\ (NoisePattern("send", sData) /\ spc = "audit" /\ spc' /= spc) =>
                    spc' = "lock" /\ UNCHANGED auditVars]_vars

\* 's', 'h', TAB, '#', SPACE from the master and a CR from the slave have
\* passed while the buffer holds "l" and the flag is set
NoiseDroppedWitness ==
    /\ mData = <<Input, LowerS, LowerH, TAB, HASH, SPACE>> /\ mpc = "dispatch"
    /\ mEntry = AuditState(<<108>>, TRUE)
    /\ sData = <<CR>> /\ spc = "lock"
    /\ auditBuffer = <<108>> /\ waitForAutocomplete /\ auditLog = <<>>

(***************************************************************************)
(* Steps of audit in the two pumps.                                        *)
(***************************************************************************)
\* the master pump takes a step of audit("recive") at a TAB byte
TabStep == mpc = "auditByte" /\ Payload[mi + 1] = TAB /\ <<mpc, mi>>' /= <<mpc, mi>>

\* the slave pump takes the step of audit("send") that tests the flag
OutputStep == spc = "audit" /\ spc' /= spc

\* s ends with the bytes of t
IsSuffix(t, s) ==
    Len(t) <= Len(s) /\ SubSeq(s, Len(s) - Len(t) + 1, Len(s)) = t

(***************************************************************************)
(* C15 as stated: every TAB byte in a chunk from the master sets           *)
(* waitForAutocomplete, and the next chunk read from the slave, whatever   *)
(* it is, finds the flag set and consumes it: it sets the flag to false    *)
(* and appends the whole chunk to auditBuffer.                             *)
(***************************************************************************)
TabUntilNextOutput ==
    /\ [](AuditReturned /\ (\E k \in 1..Len(Payload) : Payload[k] = TAB) =>
            mEntry.wait \/ EffOf("waitForAutocomplete") /= <<>>)
    /\ [][OutputStep /\ waitForAutocomplete => spc' = "auditFlag"]_vars

(***************************************************************************)
(* C15 as amended: waitForAutocomplete becomes true only at a TAB byte     *)
(* that audit("recive") handles (a TAB of a noise-pattern chunk or behind  *)
(* a leading CR is never handled), and that step appends nothing; it       *)
(* becomes false only when the slave pump audits a chunk that is not a     *)
(* noise pattern while the flag is set, and that chunk is then appended    *)
(* as a whole to auditBuffer; a noise-pattern chunk from the slave, and a  *)
(* chunk audited while the flag is not set, leave flag and buffer alone.   *)
(***************************************************************************)
TabUntilAuditedOutput ==
    /\ [][/\ waitForAutocomplete' /= waitForAutocomplete =>
                IF waitForAutocomplete' THEN TabStep ELSE spc = "auditFlag"
          /\ TabStep => waitForAutocomplete' /\ UNCHANGED auditBuffer
          /\ OutputStep =>
                IF waitForAutocomplete /\ ~NoisePattern("send", sData)
                THEN spc' = "auditFlag" /\ UNCHANGED auditVars
                ELSE spc' = "lock" /\ UNCHANGED auditVars
          /\ (spc = "auditFlag" /\ spc' /= spc) =>
                ~waitForAutocomplete' /\ spc' = "auditAppend"
          /\ (spc = "auditAppend" /\ spc' /= spc) =>
                IsSuffix(sData, auditBuffer') /\ spc' = "lock"]_vars
    /\ [](spc \in {"auditFlag", "auditAppend"} => ~NoisePattern("send", sData))

\* the TAB of a frame has set the flag and the chunk "s" from the slave has
\* consumed it and is the buffer
TabUntilAuditedOutputWitness ==
    /\ mData = <<Input, TAB>> /\ EffOf("waitForAutocomplete") /= <<>>
    /\ sData = <<LowerS>> /\ spc = "lock"
    /\ auditBuffer = <<LowerS>> /\ ~waitForAutocomplete

(***************************************************************************)
(* C16: the two pumps are inside audit at the same time, and a pump inside *)
(* audit holds no lock: what a pump stores to auditBuffer is made from the *)
(* buffer it loaded, whatever the other pump has stored since.             *)
(***************************************************************************)
InSlaveAudit == spc \in {"audit", "auditFlag", "auditAppend"}

AuditUnsynchronised ==
    /\ [](/\ InSlaveAudit => writeMutex /= "slave"
          /\ InAudit => writeMutex /= "master")
    /\ [][/\ (spc = "auditAppend" /\ spc' /= spc) => auditBuffer' = sBuf \o sData
          /\ (mpc = "auditStore" /\ mpc' /= mpc) =>
                auditBuffer' \in {mBuf, Append(mBuf, Payload[mi + 1])}]_vars

\* both pumps are between a load and a store of auditBuffer, the lock is
\* free, and the master pump has stored since the slave pump loaded
AuditUnsynchronisedWitness ==
    /\ spc = "auditAppend" /\ mpc = "auditStore"
    /\ writeMutex = "free"
    /\ sBuf /= auditBuffer

(***************************************************************************)
(* The steps of each pump, and the errors a pump ends with.                *)
(***************************************************************************)
SlaveStep ==
    \/ SlaveRead \/ SlaveReadError \/ SlaveAudit \/ SlaveAuditFlag
    \/ SlaveAuditAppend \/ SlaveLock \/ SlaveWrite

MasterStep ==
    \/ MasterRead \/ MasterReadError \/ MasterAudit \/ MasterAuditByte
    \/ MasterAuditStore \/ MasterAuditRecord \/ MasterAuditClear
    \/ DispatchInput \/ DispatchPing \/ WritePong \/ DispatchResize
    \/ DispatchUnknown

\* the pump is in its loop
SlaveRuns == spc \notin {"idle", "send", "done"}
MasterRuns == mpc \notin {"idle", "send", "done"}

\* the pump leaves its loop
SlaveEnds == SlaveRuns /\ ~SlaveRuns'
MasterEnds == MasterRuns /\ ~MasterRuns'

ReadOrWriteFailure ==
    {Err("ErrSlaveClosed"), Err("failed to send message to master"),
     Err("ErrMasterClosed"), Err("failed to write received data to slave"),
     Err("failed to return Pong message to master")}

\* a pump that is in its loop after Run has returned goes on: it waits for
\* nothing but the write lock
PumpsGoOn ==
    rpc = "returned" =>
        /\ SlaveRuns /\ ~(spc = "lock" /\ writeMutex /= "free") => ENABLED SlaveStep
        /\ MasterRuns /\ ~(mpc = "dispatch" /\ mData[1] = Ping /\ writeMutex /= "free")
                => ENABLED MasterStep
        /\ spc = "read" /\ slaveLeft > 0 => ENABLED SlaveRead
        /\ mpc = "read" /\ masterLeft > 0 => ENABLED MasterRead

\* the return of Run and the cancellation leave the pumps where they are
PumpsNotStopped ==
    (rpc' = "returned" /\ rpc /= "returned") \/ ctxDone' /= ctxDone =>
        UNCHANGED <<slavePump, masterPump>>

(***************************************************************************)
(* C17 as stated: when Run has returned, a pump that is in its loop is not *)
(* stopped and goes on with the data its stream delivers, and it leaves    *)
(* its loop only when its own read or write fails.                         *)
(***************************************************************************)
SurvivorEndsOnFailureOnly ==
    /\ []PumpsGoOn
    /\ [][/\ PumpsNotStopped
          /\ rpc = "returned" /\ SlaveEnds => sErr' \in ReadOrWriteFailure
          /\ rpc = "returned" /\ MasterEnds => mErr' \in ReadOrWriteFailure]_vars

(***************************************************************************)
(* C17 as amended: when Run has returned, a pump that is in its loop is    *)
(* not stopped and goes on with the data its stream delivers; the slave    *)
(* pump leaves its loop only when its read or its write fails, the master  *)
(* pump only when its read or a write fails or when it rejects a frame (a  *)
(* frame of zero length, an unknown type, a malformed ResizeTerminal).     *)
(***************************************************************************)
ProtocolError ==
    {Err("unexpected zero length read from master"),
     Err("received malformed remote command for terminal resize: empty payload"),
     Err("received malformed data for terminal resize")}
        \cup {UnknownType(c) : c \in 0..255}

SurvivorEndsOnItsOwn ==
    /\ []PumpsGoOn
    /\ [][/\ PumpsNotStopped
          /\ rpc = "returned" /\ SlaveEnds =>
                /\ sErr' \in {Err("ErrSlaveClosed"), Err("failed to send message to master")}
                /\ spc \in {"read", "write"}
          /\ rpc = "returned" /\ MasterEnds =>
                /\ mErr' \in ReadOrWriteFailure \cup ProtocolError
                /\ mpc \in {"read", "dispatch", "pong"}]_vars

\* Run has returned ErrSlaveClosed and the master pump is about to answer a
\* Ping it read
SurvivorEndsOnItsOwnWitness ==
    /\ rpc = "returned" /\ runErr = Err("ErrSlaveClosed") /\ spc = "done"
    /\ mpc = "pong" /\ mData = <<Ping>>
    /\ ENABLED WritePong

(***************************************************************************)
(* C18: a pump that has ended and is to send its error to errs can always  *)
(* send it: errs never holds more than the errors of the pumps that have   *)
(* sent, less the one Run has received, and a pump sends once, so there is *)
(* room for the error of each pump, also when the other pump has sent and  *)
(* Run has returned and receives no more.                                  *)
(***************************************************************************)
\* the pumps that have sent their error
Reported == (IF spc = "done" THEN 1 ELSE 0) + (IF mpc = "done" THEN 1 ELSE 0)

\* the errors Run has received from errs
Received ==
    IF rpc = "returned" /\ spc /= "idle" /\ runErr /= Err("context canceled")
    THEN 1 ELSE 0

ReportNeverBlocks ==
    /\ spc = "send" => ENABLED SlaveSend
    /\ mpc = "send" => ENABLED MasterSend
    /\ Len(errs) = Reported - Received
    /\ Len(errs) <= ErrsCapacity

\* Run has returned on cancellation and both pumps have sent their errors
\* since: errs is full and nothing receives from it
ReportNeverBlocksWitness ==
    /\ rpc = "returned" /\ runErr = Err("context canceled")
    /\ spc = "done" /\ mpc = "done"
    /\ errs = <<sErr, mErr>>

(***************************************************************************)
(* C19: every frame of at least one byte is given to audit("recive")      *)
(* before its type byte is dispatched, whatever the type byte and whatever *)
(* the dispatch then does: audit goes through the payload unless it is     *)
(* empty or a noise pattern, nothing is dispatched while audit runs, and   *)
(* the dispatch leaves auditBuffer, waitForAutocomplete and the records    *)
(* as audit left them, also when it drops or rejects the frame.            *)
(***************************************************************************)
AuditBeforeDispatch ==
    /\ [](InAudit =>
            /\ ~mHandled /\ mErr = NoErr
            /\ SlaveWrites = <<>> /\ SlaveResizes = <<>> /\ MasterWrites = <<>>)
    /\ [][/\ (mpc = "read" /\ mpc' /= mpc /\ mData' /= <<>>) => mpc' = "audit"
          /\ (mpc = "audit" /\ mpc' /= mpc) =>
                (mpc' = "auditByte" <=>
                    Payload /= <<>> /\ ~NoisePattern("receive", Payload))
          /\ (mpc' = "dispatch" /\ mpc' /= mpc) => InAudit
          /\ (mpc \in {"dispatch", "pong"} /\ mpc' /= mpc) =>
                UNCHANGED <<auditVars, Records>>]_vars

\* the Input frame Backspace, "l", CR was dropped for want of permission
\* after audit had emitted the record "l" for it
AuditBeforeDispatchWitness ==
    /\ mHandled /\ mData = <<Input, BS, 108, CR>> /\ ~permitWrite
    /\ mErr = NoErr /\ slaveIn = <<>>
    /\ Records = << <<108>> >> /\ auditLog = << <<108>> >>

(***************************************************************************)
(* C20: the Output frames the slave pump has written to the master are     *)
(* the frames of the chunks it has read, in the order it read them (the    *)
(* chunk read last may still be unwritten), wherever the Pong frames of    *)
(* the master pump lie between them; and the payloads written to the slave *)
(* are the payloads of the Input frames read from the master that are to   *)
(* be forwarded, in the order they were read (the frame read last may      *)
(* still be undispatched).                                                 *)
(***************************************************************************)
\* s without its last element
Front(s) == SubSeq(s, 1, Len(s) - 1)

\* the payloads of the Input frames of reads that are forwarded
Forwarded(reads) ==
    LET inputs == SelectSeq(reads, LAMBDA f :
                      Len(f) > 1 /\ f[1] = Input /\ permitWrite)
    IN  [k \in 1..Len(inputs) |-> SubSeq(inputs[k], 2, Len(inputs[k]))]

\* the frame read last is not dispatched yet
Undispatched == InAudit \/ (mpc = "dispatch" /\ ~mHandled)

\* the chunk read last is not written yet
Unwritten == spc \in {"audit", "auditFlag", "auditAppend", "lock", "write"}

OrderPreserved ==
    /\ Len(SlavePumpWrites) =
          Len(IF Unwritten THEN Front(slaveReads) ELSE slaveReads)
    /\ \A k \in 1..Len(SlavePumpWrites) :
          SlavePumpWrites[k].data = OutputFrame(slaveReads[k])
    /\ slaveIn = Forwarded(IF Undispatched THEN Front(masterReads) ELSE masterReads)

\* two Input frames and two chunks have each gone to the other side in the
\* order they were read
OrderPreservedWitness ==
    /\ masterReads = << <<Input, TAB>>, <<Input, 108, CR>> >>
    /\ slaveIn = << <<TAB>>, <<108, CR>> >>
    /\ slaveReads = << <<CR>>, <<108>> >>
    /\ Len(SlavePumpWrites) = 2
    /\ SlavePumpWrites[1].data = OutputFrame(<<CR>>)
    /\ SlavePumpWrites[2].data = OutputFrame(<<108>>)

====
